---- MODULE Spec2Model ----
(***************************************************************************)
(* Model of notify.py: the message-resolution pipeline of the voice        *)
(* notification hook (sanitizer, sentence segmenter, transcript            *)
(* summarizer, template resolver, message composer) and its entry point.   *)
(*                                                                         *)
(* Python strings are sequences of one-character strings.  A Python dict   *)
(* is a function from keys to values; dict.get is Get.  A Python call      *)
(* that can raise returns a record [raised |-> exception name or "none",   *)
(* value |-> result].                                                      *)
(***************************************************************************)
EXTENDS Naturals, Sequences, FiniteSets, TLC

VARIABLES
    \* entry point (main): the files and stdin it reads, and its progress
    pc, config_file, stdin, personality_file, transcript_file, argv,
    config, event, personality, message, raised, stderr, spoken, exit_status,
    \* _clean_line applied once and twice to a line
    line, cleaned, recleaned, clean_pc,
    \* _take_sentences applied to a text
    text, max_sentences, taken, take_pc,
    \* _extract_summary applied to a transcript
    transcript, summary, extract_pc

main_vars == <<pc, config_file, stdin, personality_file, transcript_file, argv,
               config, event, personality, message, raised, stderr, spoken,
               exit_status>>
clean_vars == <<line, cleaned, recleaned, clean_pc>>
take_vars == <<text, max_sentences, taken, take_pc>>
extract_vars == <<transcript, summary, extract_pc>>
vars == <<main_vars, clean_vars, take_vars, extract_vars>>

----------------------------------------------------------------------------
(* Characters and character classes of Python's re module and str methods. *)

LowerLetters == <<"a","b","c","d","e","f","g","h","i","j","k","l","m",
                  "n","o","p","q","r","s","t","u","v","w","x","y","z">>
UpperLetters == <<"A","B","C","D","E","F","G","H","I","J","K","L","M",
                  "N","O","P","Q","R","S","T","U","V","W","X","Y","Z">>
Digits == {"0","1","2","3","4","5","6","7","8","9"}

Range(f) == {f[i] : i \in DOMAIN f}

\* \s
IsSpace(c) == c \in {" ", "\t", "\n", "\r"}
\* \w
IsWord(c) == c \in Range(LowerLetters) \cup Range(UpperLetters) \cup Digits \cup {"_"}
\* [\w.\-/]
IsPathChar(c) == IsWord(c) \/ c \in {".", "-", "/"}
\* [.!?]
IsSentenceEnd(c) == c \in {".", "!", "?"}
\* [#>\-*\s]
IsLeadingMarker(c) == c \in {"#", ">", "-", "*"} \/ IsSpace(c)

\* str.lower on one character
LowerChar(c) ==
    IF c \in Range(UpperLetters)
    THEN LowerLetters[CHOOSE i \in DOMAIN UpperLetters : UpperLetters[i] = c]
    ELSE c

\* str.lower
Lower(s) == [i \in DOMAIN s |-> LowerChar(s[i])]

Min(a, b) == IF a < b THEN a ELSE b

\* the least and the greatest element of a non-empty set of numbers
MinOf(S) == CHOOSE i \in S : \A j \in S : i <= j
MaxOf(S) == CHOOSE i \in S : \A j \in S : j <= i

\* s[i:] with i counted from 1
From(s, i) == SubSeq(s, i, Len(s))

\* s.startswith(p)
StartsWith(s, p) == Len(p) <= Len(s) /\ SubSeq(s, 1, Len(p)) = p

\* s[i:].startswith(p) with i counted from 1
StartsWithAt(s, i, p) == i + Len(p) - 1 <= Len(s) /\ SubSeq(s, i, i + Len(p) - 1) = p

\* p in s
Contains(s, p) == \E i \in 1..(Len(s) + 1) : StartsWithAt(s, i, p)

\* s.find(p, i): the first index >= i where s continues with p, 0 if none
Find(s, p, i) ==
    LET m == {j \in i..Len(s) : StartsWithAt(s, j, p)}
    IN IF m = {} THEN 0 ELSE MinOf(m)

\* the first index >= i of s holding character c, 0 if there is none
IndexOf(s, c, i) ==
    LET m == {j \in i..Len(s) : s[j] = c}
    IN IF m = {} THEN 0 ELSE MinOf(m)

\* the first index >= i whose character is not whitespace, Len(s) + 1 if none
SkipSpaces(s, i) ==
    LET m == {j \in i..Len(s) : ~IsSpace(s[j])}
    IN IF m = {} THEN Len(s) + 1 ELSE MinOf(m)

\* the first index >= i whose character is whitespace, Len(s) + 1 if none
SkipNonSpaces(s, i) ==
    LET m == {j \in i..Len(s) : IsSpace(s[j])}
    IN IF m = {} THEN Len(s) + 1 ELSE MinOf(m)

\* the first index >= i whose character is not a path character
SkipPathChars(s, i) ==
    LET m == {j \in i..Len(s) : ~IsPathChar(s[j])}
    IN IF m = {} THEN Len(s) + 1 ELSE MinOf(m)

\* str.lstrip, str.rstrip, str.strip
LStrip(s) == From(s, SkipSpaces(s, 1))
RStrip(s) ==
    LET m == {j \in 1..Len(s) : ~IsSpace(s[j])}
    IN IF m = {} THEN <<>> ELSE SubSeq(s, 1, MaxOf(m))
Strip(s) == RStrip(LStrip(s))

\* s.rstrip(".")
RStripDot(s) ==
    LET m == {j \in 1..Len(s) : s[j] # "."}
    IN IF m = {} THEN <<>> ELSE SubSeq(s, 1, MaxOf(m))

\* s.replace(old, new) for a non-empty old: leftmost, non-overlapping
RECURSIVE Replace(_, _, _)
Replace(s, old, new) ==
    LET i == Find(s, old, 1)
    IN IF i = 0 THEN s
       ELSE SubSeq(s, 1, i - 1) \o new \o Replace(From(s, i + Len(old)), old, new)

\* s.split(sep)[0]: s up to the first occurrence of sep, all of s if none
Before(s, sep) ==
    LET i == Find(s, sep, 1)
    IN IF i = 0 THEN s ELSE SubSeq(s, 1, i - 1)

\* sep.join(parts)
RECURSIVE Join(_, _)
Join(parts, sep) ==
    IF parts = <<>> THEN <<>>
    ELSE IF Len(parts) = 1 THEN parts[1]
    ELSE parts[1] \o sep \o Join(From(parts, 2), sep)

\* dict.get(k, dflt)
Get(d, k, dflt) == IF k \in DOMAIN d THEN d[k] ELSE dflt

\* the empty dict
EmptyDict == [k \in {} |-> <<>>]

----------------------------------------------------------------------------
(* SentenceSegmenter *)

\* re.split(r"(?<=[.!?])\s+", t), reading t from index i: t cut at every
\* whitespace run that follows one of . ! ?
RECURSIVE SplitAtBoundaries(_, _)
SplitAtBoundaries(t, i) ==
    LET m == {j \in i..Len(t) : j > 1 /\ IsSpace(t[j]) /\ IsSentenceEnd(t[j - 1])}
    IN IF m = {} THEN <<From(t, i)>>
       ELSE <<SubSeq(t, i, MinOf(m) - 1)>> \o SplitAtBoundaries(t, SkipSpaces(t, MinOf(m)))

\* [s.strip() for s in parts if s.strip()]
StripNonEmpty(parts) ==
    LET stripped == [i \in DOMAIN parts |-> Strip(parts[i])]
    IN SelectSeq(stripped, LAMBDA p : p # <<>>)

_split_sentences(t) == StripNonEmpty(SplitAtBoundaries(Strip(t), 1))

\* Slice with the limit off by one: sentences[:n + 1]
SliceOffByOne(sentences, n) == SubSeq(sentences, 1, Min(n + 1, Len(sentences)))

\* sentences[:n] for n >= 0
Slice(sentences, n) == SubSeq(sentences, 1, Min(n, Len(sentences)))

_take_sentences(t, n) ==
    LET sentences == _split_sentences(t)
    IN IF sentences = <<>> THEN Strip(t)
       ELSE Join(Slice(sentences, n), <<" ">>)

_first_sentence(t) ==
    LET sentences == _split_sentences(t)
    IN IF sentences # <<>> THEN sentences[1] ELSE Strip(t)

----------------------------------------------------------------------------
(* TextSanitizer.  For each pattern, XEnd(s, i) is the index of the last    *)
(* character of the match that starts at index i, 0 if none starts there;  *)
(* SubX(s, i) is re.sub on s read from index i: the leftmost match, then   *)
(* the rest.                                                                *)

\* the backtick character U+0060, which a TLA+ string literal cannot hold
Backtick == "BACKTICK"

\* r"`([^`]+)`"
InlineCodeEnd(s, i) ==
    IF s[i] # Backtick THEN 0
    ELSE LET j == IndexOf(s, Backtick, i + 1)
         IN IF j > i + 1 THEN j ELSE 0

\* re.sub(r"`([^`]+)`", r"\1", s)
RECURSIVE SubInlineCode(_, _)
SubInlineCode(s, i) ==
    LET m == {j \in i..Len(s) : InlineCodeEnd(s, j) > 0}
    IN IF m = {} THEN From(s, i)
       ELSE LET a == MinOf(m)
                e == InlineCodeEnd(s, a)
            IN SubSeq(s, i, a - 1) \o SubSeq(s, a + 1, e - 1) \o SubInlineCode(s, e + 1)

HTTP == <<"h","t","t","p",":","/","/">>
HTTPS == <<"h","t","t","p","s",":","/","/">>

\* r"https?://\S+"
UrlEnd(s, i) ==
    LET scheme == IF StartsWithAt(s, i, HTTPS) THEN Len(HTTPS)
                  ELSE IF StartsWithAt(s, i, HTTP) THEN Len(HTTP) ELSE 0
    IN IF scheme > 0 /\ i + scheme <= Len(s) /\ ~IsSpace(s[i + scheme])
       THEN SkipNonSpaces(s, i + scheme) - 1
       ELSE 0

\* re.sub(r"https?://\S+", "", s)
RECURSIVE SubUrls(_, _)
SubUrls(s, i) ==
    LET m == {j \in i..Len(s) : s[j] = "h" /\ UrlEnd(s, j) > 0}
    IN IF m = {} THEN From(s, i)
       ELSE SubSeq(s, i, MinOf(m) - 1) \o SubUrls(s, UrlEnd(s, MinOf(m)) + 1)

\* r"\[([^\]]+)\]\([^)]+\)": the index of the ] that closes the label
LinkLabelEnd(s, i) ==
    IF s[i] # "[" THEN 0
    ELSE LET j == IndexOf(s, "]", i + 1)
         IN IF j > i + 1 /\ j < Len(s) /\ s[j + 1] = "(" THEN j ELSE 0

\* r"\[([^\]]+)\]\([^)]+\)"
LinkEnd(s, i) ==
    LET j == LinkLabelEnd(s, i)
        k == IF j > 0 THEN IndexOf(s, ")", j + 2) ELSE 0
    IN IF k > j + 2 THEN k ELSE 0

\* re.sub(r"\[([^\]]+)\]\([^)]+\)", r"\1", s)
RECURSIVE SubLinks(_, _)
SubLinks(s, i) ==
    LET m == {j \in i..Len(s) : LinkEnd(s, j) > 0}
    IN IF m = {} THEN From(s, i)
       ELSE LET a == MinOf(m)
            IN SubSeq(s, i, a - 1) \o SubSeq(s, a + 1, LinkLabelEnd(s, a) - 1)
               \o SubLinks(s, LinkEnd(s, a) + 1)

\* re.sub(r"\*{1,2}", "", s)
SubEmphasis(s) == SelectSeq(s, LAMBDA c : c # "*")

\* re.sub(r"^[#>\-*\s]+", "", s)
SubLeadingMarkers(s) ==
    LET m == {j \in 1..Len(s) : ~IsLeadingMarker(s[j])}
    IN IF m = {} THEN <<>> ELSE From(s, MinOf(m))

\* r"(?<!\w)/[\w.\-/]+"
AbsolutePathEnd(s, i) ==
    IF /\ s[i] = "/"
       /\ (i = 1 \/ ~IsWord(s[i - 1]))
       /\ i < Len(s) /\ IsPathChar(s[i + 1])
    THEN SkipPathChars(s, i + 1) - 1
    ELSE 0

\* re.sub(r"(?<!\w)/[\w.\-/]+", "", s)
RECURSIVE SubAbsolutePaths(_, _)
SubAbsolutePaths(s, i) ==
    LET m == {j \in i..Len(s) : AbsolutePathEnd(s, j) > 0}
    IN IF m = {} THEN From(s, i)
       ELSE SubSeq(s, i, MinOf(m) - 1) \o SubAbsolutePaths(s, AbsolutePathEnd(s, MinOf(m)) + 1)

\* r"\.{1,2}/[\w.\-/]+"
DottedPathEnd(s, i) ==
    LET n == Len(s)
        dots == IF s[i] # "." THEN 0
                ELSE IF i + 3 <= n /\ s[i + 1] = "." /\ s[i + 2] = "/" /\ IsPathChar(s[i + 3])
                THEN 2
                ELSE IF i + 2 <= n /\ s[i + 1] = "/" /\ IsPathChar(s[i + 2]) THEN 1
                ELSE 0
    IN IF dots > 0 THEN SkipPathChars(s, i + dots + 1) - 1 ELSE 0

\* re.sub(r"\.{1,2}/[\w.\-/]+", "", s)
RECURSIVE SubDottedPaths(_, _)
SubDottedPaths(s, i) ==
    LET m == {j \in i..Len(s) : DottedPathEnd(s, j) > 0}
    IN IF m = {} THEN From(s, i)
       ELSE SubSeq(s, i, MinOf(m) - 1) \o SubDottedPaths(s, DottedPathEnd(s, MinOf(m)) + 1)

\* in|at|from|to|of|on
Prepositions == {<<"i","n">>, <<"a","t">>, <<"f","r","o","m">>,
                 <<"t","o">>, <<"o","f">>, <<"o","n">>}

\* the longest suffix of s without whitespace
LastWord(s) ==
    LET m == {j \in 1..Len(s) : IsSpace(s[j])}
    IN IF m = {} THEN s ELSE From(s, MaxOf(m) + 1)

\* re.sub(r"\s+(?:in|at|from|to|of|on)\s*$", "", s, flags=re.IGNORECASE):
\* a last word that is a preposition goes with the whitespace around it
SubTrailingPreposition(s) ==
    LET t == RStrip(s)
        w == LastWord(t)
        k == Len(t) - Len(w)
    IN IF Lower(w) \in Prepositions /\ k >= 1
       THEN RStrip(SubSeq(t, 1, k))
       ELSE s

_strip_paths(s) ==
    SubTrailingPreposition(SubDottedPaths(SubAbsolutePaths(s, 1), 1))

\* re.sub(r"\s+", " ", s)
RECURSIVE CollapseSpaces(_, _)
CollapseSpaces(s, i) ==
    LET a == SkipNonSpaces(s, i)
    IN IF a > Len(s) THEN From(s, i)
       ELSE SubSeq(s, i, a - 1) \o <<" ">> \o CollapseSpaces(s, SkipSpaces(s, a))

_clean_line(s) ==
    Strip(CollapseSpaces(_strip_paths(SubLeadingMarkers(SubEmphasis(
        SubLinks(SubUrls(SubInlineCode(s, 1), 1), 1)))), 1))

FENCE == <<Backtick, Backtick, Backtick>>

\* r"```[\s\S]*?```": the index of the closing fence's first character
CodeBlockClose(s, i) ==
    IF StartsWithAt(s, i, FENCE) THEN Find(s, FENCE, i + Len(FENCE)) ELSE 0

\* re.sub(r"```[\s\S]*?```", "", s)
RECURSIVE SubCodeBlocks(_, _)
SubCodeBlocks(s, i) ==
    LET m == {j \in i..Len(s) : CodeBlockClose(s, j) > 0}
    IN IF m = {} THEN From(s, i)
       ELSE SubSeq(s, i, MinOf(m) - 1)
            \o SubCodeBlocks(s, CodeBlockClose(s, MinOf(m)) + Len(FENCE))

\* str.splitlines on s read from index i: cut at "\n", "\r" and "\r\n"; no
\* empty last line
RECURSIVE SplitLines(_, _)
SplitLines(s, i) ==
    LET m == {j \in i..Len(s) : s[j] \in {"\n", "\r"}}
    IN IF m = {} THEN (IF i > Len(s) THEN <<>> ELSE <<From(s, i)>>)
       ELSE LET a == MinOf(m)
                crlf == s[a] = "\r" /\ a < Len(s) /\ s[a + 1] = "\n"
            IN <<SubSeq(s, i, a - 1)>> \o SplitLines(s, IF crlf THEN a + 2 ELSE a + 1)

\* the shortest cleaned line worth speaking is longer than this
MinSpeakable == 5

_get_speakable_lines(s) ==
    LET lines == SplitLines(SubCodeBlocks(s, 1), 1)
        cleanedLines == [i \in DOMAIN lines |-> _clean_line(lines[i])]
    IN SelectSeq(cleanedLines, LAMBDA l : Len(l) > MinSpeakable)

_clean_prompt(prompt) ==
    LET lines == _get_speakable_lines(prompt)
    IN IF lines = <<>> THEN <<>> ELSE _first_sentence(lines[1])

----------------------------------------------------------------------------
(* TranscriptSummarizer *)

\* JSON values as json.loads returns them
JNull == [t |-> "NoneType"]
JNumber == [t |-> "int"]
JString(s) == [t |-> "str", s |-> s]
JList(l) == [t |-> "list", l |-> l]
JDict(o) == [t |-> "dict", o |-> o]

\* bool(v): what "if not v" tests (JNumber stands for a non-zero number)
Truthy(v) ==
    CASE v.t = "NoneType" -> FALSE
      [] v.t = "int" -> TRUE
      [] v.t = "str" -> v.s # <<>>
      [] v.t = "list" -> v.l # <<>>
      [] v.t = "dict" -> DOMAIN v.o # {}

\* what a call returned, or the exception it raised
Returned(v) == [raised |-> "none", value |-> v]
Raised(e) == [raised |-> e, value |-> <<>>]
\* the same for a call that returns a JSON or Python value
Throws(e) == [raised |-> e, value |-> [t |-> "NoneType"]]

\* 'assistant'
TYPE_ASSISTANT == <<"a","s","s","i","s","t","a","n","t">>
\* 'user'
TYPE_USER == <<"u","s","e","r">>
\* 'text'
TYPE_TEXT == <<"t","e","x","t">>
\* 'tool_use'
TYPE_TOOL_USE == <<"t","o","o","l","_","u","s","e">>
\* 'First answer here.'
TXT_FIRST ==
    <<"F","i","r","s","t"," ","a","n","s","w","e","r"," ","h","e","r","e",
    ".">>
\* 'Part one is done.'
TXT_PART_ONE ==
    <<"P","a","r","t"," ","o","n","e"," ","i","s"," ","d","o","n","e",".">>
\* 'Part two is next.'
TXT_PART_TWO ==
    <<"P","a","r","t"," ","t","w","o"," ","i","s"," ","n","e","x","t",".">>
\* 'Done, step one. Step two. Step three.'
TXT_THREE ==
    <<"D","o","n","e",","," ","s","t","e","p"," ","o","n","e","."," ","S",
    "t","e","p"," ","t","w","o","."," ","S","t","e","p"," ","t","h","r",
    "e","e",".">>
\* 'Please fix the bug.'
TXT_USER ==
    <<"P","l","e","a","s","e"," ","f","i","x"," ","t","h","e"," ","b","u",
    "g",".">>

\* a line of the transcript file, held as what line.strip() and json.loads
\* make of it: blank, not JSON (JSONDecodeError), or a JSON value
BlankLine == [kind |-> "blank"]
InvalidLine == [kind |-> "invalid"]
JsonLine(v) == [kind |-> "json", value |-> v]

TextBlock(s) == JDict([type |-> JString(TYPE_TEXT), text |-> JString(s)])
ToolUseBlock == JDict([type |-> JString(TYPE_TOOL_USE)])
Entry(type, content) ==
    JDict([type |-> JString(type), message |-> JDict([content |-> content])])

\* line 205: last_text = block["text"], for one block of message["content"]
ScanBlock(block, last_text) ==
    IF block.t # "dict" THEN Raised("AttributeError")
    ELSE IF Get(block.o, "type", JNull) # JString(TYPE_TEXT) THEN Returned(last_text)
    ELSE IF "text" \notin DOMAIN block.o THEN Raised("KeyError")
    ELSE Returned(block.o["text"])

\* lines 203-205: the loop over the blocks of a list
RECURSIVE ScanBlocks(_, _)
ScanBlocks(blocks, last_text) ==
    IF blocks = <<>> THEN Returned(last_text)
    ELSE LET r == ScanBlock(blocks[1], last_text)
         IN IF r.raised # "none" THEN r ELSE ScanBlocks(From(blocks, 2), r.value)

\* line 203: for block in content, whatever content is.  Iterating a str
\* yields its characters and iterating a dict its keys, and block.get fails
\* on the first of them
ScanContent(content, last_text) ==
    CASE content.t = "list" -> ScanBlocks(content.l, last_text)
      [] content.t \in {"str", "dict"} ->
            IF Truthy(content) THEN Raised("AttributeError") ELSE Returned(last_text)
      [] OTHER -> Raised("TypeError")

\* lines 200-205 for one parsed line
ScanEntry(entry, last_text) ==
    IF entry.t # "dict" THEN Raised("AttributeError")
    ELSE IF Get(entry.o, "type", JNull) # JString(TYPE_ASSISTANT) THEN Returned(last_text)
    ELSE LET msg == Get(entry.o, "message", JDict(EmptyDict))
         IN IF msg.t # "dict" THEN Raised("AttributeError")
            ELSE ScanContent(Get(msg.o, "content", JList(<<>>)), last_text)

\* lines 196-205: the loop over the lines of the file
RECURSIVE ScanLines(_, _)
ScanLines(lines, last_text) ==
    IF lines = <<>> THEN Returned(last_text)
    ELSE LET l == lines[1]
             r == CASE l.kind = "blank" -> Returned(last_text)
                    [] l.kind = "invalid" -> Raised("JSONDecodeError")
                    [] l.kind = "json" -> ScanEntry(l.value, last_text)
         IN IF r.raised # "none" THEN r ELSE ScanLines(From(lines, 2), r.value)

\* max_sentences of the summary (line 215)
SummarySentences == 2

\* lines 206-215: the summary of the text found
SummaryOf(last_text) ==
    IF ~Truthy(last_text) THEN Returned(<<>>)
    ELSE IF last_text.t # "str" THEN Raised("TypeError")
    ELSE LET lines == _get_speakable_lines(last_text.s)
         IN IF lines = <<>> THEN Returned(<<>>)
            ELSE Returned(_take_sentences(Join(lines, <<" ">>), SummarySentences))

\* lines 193-215: the body of the try block.  The file is
\* [status |-> "ok" | "missing" | "undecodable", lines |-> its lines]
TryExtract(file) ==
    CASE file.status = "missing" -> Raised("OSError")
      [] file.status = "undecodable" -> Raised("UnicodeDecodeError")
      [] OTHER -> LET r == ScanLines(file.lines, JString(<<>>))
                  IN IF r.raised # "none" THEN r ELSE SummaryOf(r.value)

\* line 217: except (OSError, json.JSONDecodeError, KeyError)
Caught == {"OSError", "JSONDecodeError", "KeyError"}

_extract_summary(file) ==
    LET r == TryExtract(file)
    IN IF r.raised \in Caught THEN Returned(<<>>) ELSE r

----------------------------------------------------------------------------
(* Config, personality *)

\* '{prompt}'
PH_PROMPT == <<"{","p","r","o","m","p","t","}">>
\* '{summary}'
PH_SUMMARY == <<"{","s","u","m","m","a","r","y","}">>
\* '{message}'
PH_MESSAGE == <<"{","m","e","s","s","a","g","e","}">>
\* 'On it.'
ON_IT == <<"O","n"," ","i","t",".">>
\* 'Done. {summary}'
DONE_SUMMARY ==
    <<"D","o","n","e","."," ","{","s","u","m","m","a","r","y","}">>
\* 'Need your permission. {message}'
NEED_PERMISSION ==
    <<"N","e","e","d"," ","y","o","u","r"," ","p","e","r","m","i","s","s",
    "i","o","n","."," ","{","m","e","s","s","a","g","e","}">>
\* 'Waiting for your input.'
WAITING ==
    <<"W","a","i","t","i","n","g"," ","f","o","r"," ","y","o","u","r"," ",
    "i","n","p","u","t",".">>
\* 'Notification'
NOTIFICATION == <<"N","o","t","i","f","i","c","a","t","i","o","n">>

\* lines 35-48
DEFAULT_CONFIG == [
    enabled |-> TRUE,
    messages |-> [
        prompt_submit |-> ON_IT,
        stop |-> DONE_SUMMARY,
        notification_permission_prompt |-> NEED_PERMISSION,
        notification_idle_prompt |-> WAITING,
        notification_default |-> PH_MESSAGE]]

\* load_config: the file is [status |-> "ok" | "missing" | "invalid" |
\* "unreadable", value |-> what json.load returns].  A missing file and invalid
\* JSON are reported and replaced by the defaults; any other failure propagates
load_config(file) ==
    CASE file.status = "ok" -> [raised |-> "none", reported |-> FALSE, value |-> file.value]
      [] file.status \in {"missing", "invalid"} ->
            [raised |-> "none", reported |-> TRUE, value |-> JDict(DEFAULT_CONFIG)]
      [] OTHER -> [raised |-> "PermissionError", reported |-> FALSE, value |-> JNull]

\* dict.get's None, for a message key
NoKey == "None"

\* _SECTION_MAP.get(header), lines 64-69
_SECTION_MAP(header) ==
    CASE header = <<"a","c","k","n","o","w","l","e","d","g","m","e","n","t","s">> -> "prompt_submit"
      [] header = <<"c","o","m","p","l","e","t","i","o","n","s">> -> "stop"
      [] header = <<"p","e","r","m","i","s","s","i","o","n","s">> -> "notification_permission_prompt"
      [] header = <<"i","d","l","e">> -> "notification_idle_prompt"
      [] OTHER -> NoKey

\* sections.setdefault(key, []).append(template)
AppendTemplate(sections, key, template) ==
    [k \in DOMAIN sections \cup {key} |->
        IF k = key THEN Append(Get(sections, key, <<>>), template) ELSE sections[k]]

\* lines 82-90: the loop over the lines of personality.md
RECURSIVE ParseSections(_, _, _)
ParseSections(lines, current_key, sections) ==
    IF lines = <<>> THEN sections
    ELSE LET l == Strip(lines[1])
             rest == From(lines, 2)
         IN IF StartsWith(l, <<"#", "#", " ">>)
            THEN ParseSections(rest, _SECTION_MAP(Lower(Strip(From(l, 4)))), sections)
            ELSE IF current_key # NoKey /\ StartsWith(l, <<"-", " ">>) /\ Strip(From(l, 3)) # <<>>
            THEN ParseSections(rest, current_key,
                               AppendTemplate(sections, current_key, Strip(From(l, 3))))
            ELSE ParseSections(rest, current_key, sections)

\* _load_personality: the file is [status |-> "ok" | "missing" | "unreadable",
\* text |-> text.splitlines() of its content]
_load_personality(file) ==
    CASE file.status = "missing" -> Returned(EmptyDict)
      [] file.status = "ok" ->
            Returned(ParseSections(file.text, NoKey, EmptyDict))
      [] OTHER -> [raised |-> "PermissionError", value |-> EmptyDict]

\* _pick_template: None, or any one of the templates under key (random.choice)
_pick_template(pers, key) ==
    LET templates == Get(pers, key, <<>>)
    IN IF templates # <<>> THEN {JString(templates[i]) : i \in DOMAIN templates}
       ELSE {JNull}

----------------------------------------------------------------------------
(* MessageComposer *)

\* the sentence limit of a resolved message (_take_sentences' default)
MessageSentences == 3

\* f"notification_{notif_type}", tabulated over the notification types of
\* the model
NotificationKey(notif_type) ==
    CASE notif_type = "" -> "notification_"
      [] notif_type = "idle_prompt" -> "notification_idle_prompt"
      [] notif_type = "permission_prompt" -> "notification_permission_prompt"
      [] notif_type = "auth_success" -> "notification_auth_success"

\* lines 228-249: every value resolve_message can return for UserPromptSubmit
ResolvePrompt(ev, messages, pers) ==
    LET prompt == _clean_prompt(Get(ev, "prompt", <<>>))
        fallback == Get(messages, "prompt_submit", PH_PROMPT)
        no_placeholder == SelectSeq(Get(pers, "prompt_submit", <<>>),
                                    LAMBDA t : ~Contains(t, PH_PROMPT))
        With(template) ==
            IF Truthy(template)
            THEN IF Contains(template.s, PH_PROMPT) /\ prompt = <<>>
                 THEN IF no_placeholder # <<>>
                      THEN {JString(no_placeholder[i]) : i \in DOMAIN no_placeholder}
                      ELSE {JString(Get(messages, "prompt_submit", ON_IT))}
                 ELSE {JString(_take_sentences(Replace(template.s, PH_PROMPT, prompt),
                                               MessageSentences))}
            ELSE IF Contains(fallback, PH_PROMPT)
                 THEN IF prompt = <<>>
                      THEN {JString(Get(messages, "prompt_submit_fallback", ON_IT))}
                      ELSE {JString(_take_sentences(Replace(fallback, PH_PROMPT, prompt),
                                                    MessageSentences))}
                 ELSE {JString(fallback)}
    IN {Returned(m) : m \in UNION {With(t) : t \in _pick_template(pers, "prompt_submit")}}

\* StaticPrefix without the case folding
StaticPrefixKeepsCase(static) == RStripDot(Strip(Before(static, PH_SUMMARY)))

\* line 272: the fixed prefix of the static template
StaticPrefix(static) == Lower(RStripDot(Strip(Before(static, PH_SUMMARY))))

\* lines 259-277: the Stop message for a summary s
StopText(s, messages, pers) ==
    LET static == Get(messages, "stop", PH_SUMMARY)
        prefix == StaticPrefix(static)
        With(template) ==
            IF Truthy(template)
            THEN IF s = <<>>
                 THEN Strip(Replace(template.s, PH_SUMMARY, <<>>))
                 ELSE Replace(template.s, PH_SUMMARY, s)
            ELSE IF s = <<>>
                 THEN Strip(Replace(static, PH_SUMMARY, <<>>))
                 ELSE IF prefix # <<>> /\ StartsWith(Lower(s), prefix)
                      THEN s
                      ELSE Replace(static, PH_SUMMARY, s)
    IN {Returned(JString(_take_sentences(With(t), MessageSentences))) :
            t \in _pick_template(pers, "stop")}

\* ResolveStop with the summary looked up before stop_hook_active is tested
ResolveStopLateCheck(ev, messages, pers, file) ==
    LET inline == Get(ev, "transcript_summary", <<>>)
        extracted ==
            IF inline = <<>> /\ Get(ev, "transcript_path", <<>>) # <<>>
            THEN _extract_summary(file) ELSE Returned(inline)
    IN IF extracted.raised # "none" THEN {Throws(extracted.raised)}
       ELSE IF Get(ev, "stop_hook_active", FALSE) /\ extracted.value = <<>>
       THEN {Returned(JNull)}
       ELSE StopText(extracted.value, messages, pers)

\* lines 251-277: every outcome of resolve_message for Stop; file is the
\* transcript the event's transcript_path names
ResolveStop(ev, messages, pers, file) ==
    IF Get(ev, "stop_hook_active", FALSE) THEN {Returned(JNull)}
    ELSE LET inline == Get(ev, "transcript_summary", <<>>)
             extracted ==
                 IF inline = <<>> /\ Get(ev, "transcript_path", <<>>) # <<>>
                 THEN _extract_summary(file) ELSE Returned(inline)
         IN IF extracted.raised # "none" THEN {Throws(extracted.raised)}
            ELSE StopText(extracted.value, messages, pers)

\* ResolveNotification with the idle retry made for every notification type
ResolveNotificationAlwaysRetries(ev, messages, pers) ==
    LET key == NotificationKey(Get(ev, "notification_type", ""))
        first == _pick_template(pers, key)
        picks == UNION {IF ~Truthy(t)
                        THEN _pick_template(pers, "notification_idle_prompt")
                        ELSE {t} : t \in first}
        static == Get(messages, key, Get(messages, "notification_default", PH_MESSAGE))
        With(template) ==
            IF Truthy(template)
            THEN Replace(template.s, PH_MESSAGE, Get(ev, "message", <<>>))
            ELSE Replace(static, PH_MESSAGE, Get(ev, "message", NOTIFICATION))
    IN {Returned(JString(_take_sentences(With(t), MessageSentences))) : t \in picks}

\* lines 279-294: every value resolve_message can return for Notification
ResolveNotification(ev, messages, pers) ==
    LET notif_type == Get(ev, "notification_type", "")
        key == NotificationKey(notif_type)
        first == _pick_template(pers, key)
        picks == UNION {IF ~Truthy(t) /\ notif_type = "idle_prompt"
                        THEN _pick_template(pers, "notification_idle_prompt")
                        ELSE {t} : t \in first}
        static == Get(messages, key, Get(messages, "notification_default", PH_MESSAGE))
        With(template) ==
            IF Truthy(template)
            THEN Replace(template.s, PH_MESSAGE, Get(ev, "message", <<>>))
            ELSE Replace(static, PH_MESSAGE, Get(ev, "message", NOTIFICATION))
    IN {Returned(JString(_take_sentences(With(t), MessageSentences))) : t \in picks}

\* resolve_message: every outcome (a returned value, or an exception) for an
\* event and a config as json.loads returned them
resolve_message(ev, cfg, pers, file) ==
    IF ev.t # "dict" \/ cfg.t # "dict" THEN {Throws("AttributeError")}
    ELSE LET hook_event == Get(ev.o, "hook_event_name", "")
             messages == Get(cfg.o, "messages", DEFAULT_CONFIG.messages)
         IN CASE hook_event = "UserPromptSubmit" -> ResolvePrompt(ev.o, messages, pers)
              [] hook_event = "Stop" -> ResolveStop(ev.o, messages, pers, file)
              [] hook_event = "Notification" -> ResolveNotification(ev.o, messages, pers)
              [] OTHER -> {Returned(JNull)}

----------------------------------------------------------------------------
(* Bounds of the inputs *)

\* the longest line given to _clean_line
MaxLineLen == 4
\* the longest text given to _take_sentences
MaxTextLen == 6
\* the largest sentence limit given to _take_sentences
MaxSentences == 2
\* the most lines of a transcript file
MaxLines == 2
\* the most sentences of a Stop event's inline summary
MaxSummarySentences == 4

\* every string over alphabet of length at most n
Strings(alphabet, n) == UNION {[1..k -> alphabet] : k \in 0..n}

\* the variables of the operations a specification does not run
MainIdle ==
    /\ pc = "idle" /\ config_file = "none" /\ stdin = "none"
    /\ personality_file = "none" /\ transcript_file = "none" /\ argv = <<>>
    /\ config = JNull /\ event = JNull /\ personality = EmptyDict
    /\ message = JNull /\ raised = "none" /\ stderr = <<>> /\ spoken = <<>>
    /\ exit_status = <<>>
CleanIdle == line = <<>> /\ cleaned = <<>> /\ recleaned = <<>> /\ clean_pc = "idle"
TakeIdle == text = <<>> /\ max_sentences = 0 /\ taken = <<>> /\ take_pc = "idle"
ExtractIdle == transcript = "none" /\ summary = Returned(<<>>) /\ extract_pc = "idle"

----------------------------------------------------------------------------
(* Entry point: one run of the hook, from load_config to the exit *)

\* 'On it. {prompt}'
ON_IT_PROMPT ==
    <<"O","n"," ","i","t","."," ","{","p","r","o","m","p","t","}">>
\* '{summary} Over.'
SUMMARY_OVER ==
    <<"{","s","u","m","m","a","r","y","}"," ","O","v","e","r",".">>
\* 'Alert: {message}'
ALERT_MESSAGE ==
    <<"A","l","e","r","t",":"," ","{","m","e","s","s","a","g","e","}">>
\* 'Yes?'
YES == <<"Y","e","s","?">>
\* 'ok'
PROMPT_SHORT == <<"o","k">>
\* 'Please fix the bug. Thanks!'
PROMPT_TWO ==
    <<"P","l","e","a","s","e"," ","f","i","x"," ","t","h","e"," ","b","u",
    "g","."," ","T","h","a","n","k","s","!">>
\* '(backtick)(backtick)(backtick)\nls\n(backtick)(backtick)(backtick)'
PROMPT_CODE ==
    <<Backtick,Backtick,Backtick,"\n","l","s","\n",Backtick,Backtick,
    Backtick>>
\* 'Done, fixed.'
SUMMARY_DONE == <<"D","o","n","e",","," ","f","i","x","e","d",".">>
\* 'Fixed it.'
SUMMARY_FIXED == <<"F","i","x","e","d"," ","i","t",".">>
\* 'Next step.'
SUMMARY_NEXT == <<"N","e","x","t"," ","s","t","e","p",".">>
\* 'Claude needs access.'
MESSAGE_ACCESS ==
    <<"C","l","a","u","d","e"," ","n","e","e","d","s"," ","a","c","c","e",
    "s","s",".">>
\* 'One. Two. Three. Four.'
MESSAGE_FOUR ==
    <<"O","n","e","."," ","T","w","o","."," ","T","h","r","e","e","."," ",
    "F","o","u","r",".">>
\* '/tmp/t.jsonl'
TRANSCRIPT_PATH == <<"/","t","m","p","/","t",".","j","s","o","n","l">>
\* '--say'
SAY == <<"-","-","s","a","y">>
\* 'Hello'
HELLO == <<"H","e","l","l","o">>
\* 'there.'
THERE == <<"t","h","e","r","e",".">>
\* '--verbose'
VERBOSE == <<"-","-","v","e","r","b","o","s","e">>
\* the lines of a personality.md
PERSONALITY_FULL == <<
    \* # Personality
    <<"#"," ","P","e","r","s","o","n","a","l","i","t","y">>,
    \* ## Acknowledgments
    <<"#","#"," ","A","c","k","n","o","w","l","e","d","g","m","e","n","t","s">>,
    \* - Working on {prompt}
    <<"-"," ","W","o","r","k","i","n","g"," ","o","n"," ","{","p","r","o","m","p","t","}">>,
    \* - Sure thing.
    <<"-"," ","S","u","r","e"," ","t","h","i","n","g",".">>,
    \* (an empty line)
    <<>>,
    \* ## Completions
    <<"#","#"," ","C","o","m","p","l","e","t","i","o","n","s">>,
    \* - All done. {summary}
    <<"-"," ","A","l","l"," ","d","o","n","e","."," ","{","s","u","m","m","a","r","y","}">>,
    \* ## Permissions
    <<"#","#"," ","P","e","r","m","i","s","s","i","o","n","s">>,
    \* - Permission needed: {message}
    <<"-"," ","P","e","r","m","i","s","s","i","o","n"," ","n","e","e","d","e","d",":"," ","{","m","e","s","s","a","g","e","}">>,
    \* ## Idle
    <<"#","#"," ","I","d","l","e">>,
    \* - Still here.
    <<"-"," ","S","t","i","l","l"," ","h","e","r","e",".">>
    >>
\* the lines of a personality.md
PERSONALITY_PROMPT_ONLY == <<
    \* ## acknowledgments
    <<"#","#"," ","a","c","k","n","o","w","l","e","d","g","m","e","n","t","s">>,
    \* - Looking into {prompt}
    <<"-"," ","L","o","o","k","i","n","g"," ","i","n","t","o"," ","{","p","r","o","m","p","t","}">>,
    \* - 
    <<"-"," ">>,
    \* ## Notes
    <<"#","#"," ","N","o","t","e","s">>,
    \* - not a template
    <<"-"," ","n","o","t"," ","a"," ","t","e","m","p","l","a","t","e">>
    >>
\* the lines of a personality.md
PERSONALITY_IDLE == <<
    \* ##  IDLE 
    <<"#","#"," "," ","I","D","L","E"," ">>,
    \* -  Still waiting. 
    <<"-"," "," ","S","t","i","l","l"," ","w","a","i","t","i","n","g","."," ">>,
    \* ## Completions
    <<"#","#"," ","C","o","m","p","l","e","t","i","o","n","s">>,
    \* - Finished.
    <<"-"," ","F","i","n","i","s","h","e","d",".">>
    >>

\* config.json: absent, not JSON, unreadable, or one of these values
Configs == {
    JDict(EmptyDict),
    JDict([enabled |-> FALSE]),
    JDict([messages |-> EmptyDict]),
    JDict([debug |-> TRUE,
           messages |-> [prompt_submit |-> ON_IT_PROMPT,
                         stop |-> SUMMARY_OVER,
                         notification_idle_prompt |-> WAITING,
                         notification_default |-> ALERT_MESSAGE]]),
    JDict([messages |-> [prompt_submit |-> PH_PROMPT,
                         prompt_submit_fallback |-> YES,
                         stop |-> DONE_SUMMARY,
                         notification_permission_prompt |-> PH_MESSAGE]]),
    JList(<<>>)
}

ConfigFiles ==
    {[status |-> st, value |-> JNull] : st \in {"missing", "invalid", "unreadable"}}
    \cup {[status |-> "ok", value |-> c] : c \in Configs}

\* personality.md
PersonalityFiles ==
    {[status |-> st, text |-> <<>>] : st \in {"missing", "unreadable"}}
    \cup {[status |-> "ok", text |-> t] :
             t \in {PERSONALITY_FULL, PERSONALITY_PROMPT_ONLY, PERSONALITY_IDLE}}

\* a summary of k sentences that starts with first
RECURSIVE SummaryText(_, _)
SummaryText(first, k) ==
    IF k <= 1 THEN first ELSE SummaryText(first, k - 1) \o <<" ">> \o SUMMARY_NEXT

\* a dict d extended by the dict e
Merge(d, e) == [k \in DOMAIN d \cup DOMAIN e |-> IF k \in DOMAIN e THEN e[k] ELSE d[k]]

\* the field k with each value of vs, or absent
Optional(k, vs) == {EmptyDict} \cup {[j \in {k} |-> v] : v \in vs}

PromptEvents ==
    {Merge([hook_event_name |-> "UserPromptSubmit"], p) :
        p \in Optional("prompt", {PROMPT_SHORT, PROMPT_TWO, PROMPT_CODE})}

StopEvents ==
    {Merge(Merge(Merge([hook_event_name |-> "Stop"], a), s), p) :
        a \in Optional("stop_hook_active", BOOLEAN),
        s \in Optional("transcript_summary",
                       {SummaryText(f, k) : f \in {SUMMARY_DONE, SUMMARY_FIXED},
                                            k \in 1..MaxSummarySentences}),
        p \in Optional("transcript_path", {TRANSCRIPT_PATH})}

NotificationEvents ==
    {Merge(Merge([hook_event_name |-> "Notification"], n), m) :
        n \in Optional("notification_type", {"idle_prompt", "permission_prompt", "auth_success"}),
        m \in Optional("message", {<<>>, MESSAGE_ACCESS, MESSAGE_FOUR})}

Events ==
    PromptEvents \cup StopEvents \cup NotificationEvents
    \cup {EmptyDict, [hook_event_name |-> "SessionStart"]}

\* stdin: empty, not JSON, or the JSON text of a value
Stdins ==
    {[kind |-> "empty", value |-> JNull], [kind |-> "invalid", value |-> JNull],
     [kind |-> "json", value |-> JList(<<>>)]}
    \cup {[kind |-> "json", value |-> JDict(e)] : e \in Events}

\* the file a Stop event's transcript_path names
MainTranscripts == {
    [status |-> "missing", lines |-> <<>>],
    [status |-> "ok", lines |-> <<
        JsonLine(Entry(TYPE_USER, JList(<<TextBlock(TXT_USER)>>))),
        JsonLine(Entry(TYPE_ASSISTANT, JList(<<TextBlock(TXT_THREE)>>)))>>],
    [status |-> "ok", lines |-> <<
        JsonLine(Entry(TYPE_ASSISTANT, JList(<<TextBlock(TXT_FIRST)>>))),
        JsonLine(Entry(TYPE_ASSISTANT, JList(<<ToolUseBlock>>)))>>],
    [status |-> "ok", lines |-> <<JsonLine(JList(<<>>))>>]
}

NoTranscript == [status |-> "missing", lines |-> <<>>]

\* whether stdin holds an event that names a transcript
NamesTranscript(in) ==
    /\ in.kind = "json" /\ in.value.t = "dict"
    /\ "transcript_path" \in DOMAIN in.value.o

\* sys.argv[1:]
HookArgs == <<>>
CliArgs == {<<SAY>>, <<SAY, HELLO, THERE>>, <<SAY, <<" ">>>>, <<VERBOSE>>}

NoException == [exc |-> "none", at |-> "none"]

Init ==
    /\ pc = "load_config"
    /\ config_file \in ConfigFiles
    /\ \/ /\ argv = HookArgs
          /\ stdin \in Stdins
          /\ personality_file \in PersonalityFiles
          /\ transcript_file \in
                 (IF NamesTranscript(stdin) THEN MainTranscripts ELSE {NoTranscript})
       \/ /\ argv \in CliArgs
          /\ stdin = [kind |-> "empty", value |-> JNull]
          /\ personality_file = [status |-> "missing", text |-> <<>>]
          /\ transcript_file = NoTranscript
    /\ config = JNull /\ event = JNull /\ personality = EmptyDict
    /\ message = JNull /\ raised = NoException
    /\ stderr = <<>> /\ spoken = <<>> /\ exit_status = <<>>
    /\ CleanIdle /\ TakeIdle /\ ExtractIdle

other_vars == <<clean_vars, take_vars, extract_vars>>
inputs == <<config_file, stdin, personality_file, transcript_file, argv>>

\* an exception leaves main for the handler of lines 407-409
Fail(exc, at) ==
    /\ pc' = "except"
    /\ raised' = [exc |-> exc, at |-> at]

\* line 379: config = load_config()
LoadConfig ==
    /\ pc = "load_config"
    /\ LET r == load_config(config_file)
       IN IF r.raised # "none"
          THEN /\ Fail(r.raised, "load_config")
               /\ UNCHANGED <<config, stderr>>
          ELSE /\ config' = r.value
               /\ stderr' = IF r.reported THEN Append(stderr, "Config error, using defaults")
                            ELSE stderr
               /\ pc' = "enabled"
               /\ UNCHANGED raised
    /\ UNCHANGED <<inputs, event, personality, message, spoken, exit_status, other_vars>>

\* lines 381-382: if not config.get("enabled", True): return
CheckEnabled ==
    /\ pc = "enabled"
    /\ IF config.t # "dict" THEN Fail("AttributeError", "main")
       ELSE /\ pc' = IF Get(config.o, "enabled", TRUE) THEN "mode" ELSE "done"
            /\ UNCHANGED raised
    /\ UNCHANGED <<inputs, config, event, personality, message, stderr, spoken,
                   exit_status, other_vars>>

IsSay == Len(argv) >= 1 /\ argv[1] = SAY

\* lines 385-389: python3 notify.py --say "message"
Say ==
    /\ pc = "mode" /\ IsSay
    /\ message' = JString(Strip(Join(From(argv, 2), <<" ">>)))
    /\ pc' = IF Truthy(message') THEN "speak" ELSE "done"
    /\ UNCHANGED <<inputs, config, event, personality, raised, stderr, spoken,
                   exit_status, other_vars>>

\* lines 392-396: the event read from stdin (the debug log changes nothing
\* modelled here, and _debug_log swallows its own failure)
ReadEvent ==
    /\ pc = "mode" /\ ~IsSay
    /\ CASE stdin.kind = "empty" ->
              event' = JDict(EmptyDict) /\ pc' = "load_personality" /\ UNCHANGED raised
         [] stdin.kind = "invalid" ->
              Fail("JSONDecodeError", "main") /\ UNCHANGED event
         [] stdin.kind = "json" ->
              event' = stdin.value /\ pc' = "load_personality" /\ UNCHANGED raised
    /\ UNCHANGED <<inputs, config, personality, message, stderr, spoken,
                   exit_status, other_vars>>

\* line 398: personality = _load_personality()
LoadPersonality ==
    /\ pc = "load_personality"
    /\ LET r == _load_personality(personality_file)
       IN IF r.raised # "none"
          THEN Fail(r.raised, "_load_personality") /\ UNCHANGED personality
          ELSE personality' = r.value /\ pc' = "resolve" /\ UNCHANGED raised
    /\ UNCHANGED <<inputs, config, event, message, stderr, spoken, exit_status,
                   other_vars>>

\* line 399: message = resolve_message(event, config, personality)
ResolveMessage ==
    /\ pc = "resolve"
    /\ \E r \in resolve_message(event, config, personality, transcript_file) :
          IF r.raised # "none"
          THEN Fail(r.raised, "resolve_message") /\ UNCHANGED message
          ELSE message' = r.value /\ pc' = "resolved" /\ UNCHANGED raised
    /\ UNCHANGED <<inputs, config, event, personality, stderr, spoken, exit_status,
                   other_vars>>

\* lines 400-401 with a message to speak: speak(message, config) plays the
\* audio or raises (no network, no voice, afplay failing)
Speak ==
    /\ pc \in {"resolved", "speak"} /\ Truthy(message)
    /\ \/ /\ spoken' = Append(spoken, message.s)
          /\ pc' = "done"
          /\ UNCHANGED raised
       \/ /\ Fail("SpeechError", "speak")
          /\ UNCHANGED spoken
    /\ UNCHANGED <<inputs, config, event, personality, message, stderr, exit_status,
                   other_vars>>

\* line 400 with no message: nothing is spoken
NoSpeech ==
    /\ pc = "resolved" /\ ~Truthy(message)
    /\ pc' = "done"
    /\ UNCHANGED <<inputs, config, event, personality, message, raised, stderr,
                   spoken, exit_status, other_vars>>

\* main returned: the script ends
Return ==
    /\ pc = "done"
    /\ pc' = "exited"
    /\ exit_status' = <<0>>
    /\ UNCHANGED <<inputs, config, event, personality, message, raised, stderr,
                   spoken, other_vars>>

\* Except without the handler: the exception ends the process
ExceptUncaught ==
    /\ pc = "except"
    /\ pc' = "exited"
    /\ exit_status' = <<1>>
    /\ UNCHANGED <<inputs, config, event, personality, message, raised, stderr,
                   spoken, other_vars>>

\* lines 407-409: except Exception: report on stderr, sys.exit(0)
Except ==
    /\ pc = "except"
    /\ stderr' = Append(stderr, "claudevoice error")
    /\ pc' = "exited"
    /\ exit_status' = <<0>>
    /\ UNCHANGED <<inputs, config, event, personality, message, raised, spoken,
                   other_vars>>

Next ==
    \/ LoadConfig \/ CheckEnabled \/ Say \/ ReadEvent \/ LoadPersonality
    \/ ResolveMessage \/ Speak \/ NoSpeech \/ Return \/ Except

Spec == Init /\ [][Next]_vars

\* the positions of a run in the script
Positions ==
    {"load_config", "enabled", "mode", "load_personality", "resolve",
     "resolved", "speak", "done", "except", "exited"}

\* a step of the interpreter: the position in the script moves on; every
\* action of Next is such a step and one is possible until the process exits
Advance == pc # "exited" /\ pc' \in Positions \ {pc}

\* the run is never suspended: the interpreter takes every step it can
FairSpec == Spec /\ WF_pc(Advance)

----------------------------------------------------------------------------
(* _clean_line applied to a line, then to its own result *)

LineAlphabet == {Backtick, "a", " ", "/", "#", "*"}

CleanInit ==
    /\ line \in Strings(LineAlphabet, MaxLineLen)
    /\ cleaned = <<>> /\ recleaned = <<>> /\ clean_pc = "start"
    /\ MainIdle /\ TakeIdle /\ ExtractIdle

CleanOnce ==
    /\ clean_pc = "start"
    /\ cleaned' = _clean_line(line)
    /\ clean_pc' = "once"
    /\ UNCHANGED <<line, recleaned, main_vars, take_vars, extract_vars>>

CleanTwice ==
    /\ clean_pc = "once"
    /\ recleaned' = _clean_line(cleaned)
    /\ clean_pc' = "twice"
    /\ UNCHANGED <<line, cleaned, main_vars, take_vars, extract_vars>>

CleanNext == CleanOnce \/ CleanTwice

CleanSpec == CleanInit /\ [][CleanNext]_vars

\* C5: sanitization is idempotent: cleaning a cleaned line changes nothing,
\* also when the first pass exposes a backtick pair, a leading marker or a
\* path
C5_CleanLineIdempotent == clean_pc = "twice" => recleaned = cleaned

----------------------------------------------------------------------------
(* _take_sentences applied to a text *)

TextAlphabet == {"a", ".", "!", " "}

TakeInit ==
    /\ text \in Strings(TextAlphabet, MaxTextLen)
    /\ max_sentences \in 0..MaxSentences
    /\ taken = <<>> /\ take_pc = "start"
    /\ MainIdle /\ CleanIdle /\ ExtractIdle

TakeSentences ==
    /\ take_pc = "start"
    /\ taken' = _take_sentences(text, max_sentences)
    /\ take_pc' = "done"
    /\ UNCHANGED <<text, max_sentences, main_vars, clean_vars, extract_vars>>

TakeNext == TakeSentences

TakeSpec == TakeInit /\ [][TakeNext]_vars

\* the places of t where sentence-ending punctuation is followed by whitespace
SentenceBoundaries(t) ==
    {i \in 1..Len(t) : i < Len(t) /\ IsSentenceEnd(t[i]) /\ IsSpace(t[i + 1])}

\* t with every whitespace run that follows sentence-ending punctuation
\* replaced by one space
RECURSIVE SingleSpaced(_, _)
SingleSpaced(t, i) ==
    IF i > Len(t) THEN <<>>
    ELSE IF i > 1 /\ IsSpace(t[i]) /\ IsSentenceEnd(t[i - 1])
    THEN <<" ">> \o SingleSpaced(t, SkipSpaces(t, i))
    ELSE <<t[i]>> \o SingleSpaced(t, i + 1)

\* the first n sentences of t, in order, joined by single spaces: the trimmed
\* text up to its n-th sentence boundary, single-spaced
FirstSentences(t, n) ==
    LET s == Strip(t)
        bs == SentenceBoundaries(s)
    IN IF n = 0 THEN <<>>
       ELSE IF Cardinality(bs) < n THEN SingleSpaced(s, 1)
       ELSE LET b == CHOOSE c \in bs : Cardinality({d \in bs : d <= c}) = n
            IN SingleSpaced(SubSeq(s, 1, b), 1)

\* what C6 says of a result r for text t and limit n
TakesSentences(t, n, r) ==
    /\ r = <<>> \/ Cardinality(SentenceBoundaries(r)) + 1 <= n
    /\ r = FirstSentences(t, n)
    /\ SentenceBoundaries(t) = {} => r = Strip(t)

----------------------------------------------------------------------------
(* _extract_summary applied to a transcript file *)

\* the lines a transcript is made of
TranscriptLines == {
    BlankLine,
    InvalidLine,
    \* a user entry with a text block
    JsonLine(Entry(TYPE_USER, JList(<<TextBlock(TXT_USER)>>))),
    \* assistant entries with one, two and no text block
    JsonLine(Entry(TYPE_ASSISTANT, JList(<<TextBlock(TXT_FIRST)>>))),
    JsonLine(Entry(TYPE_ASSISTANT,
                   JList(<<TextBlock(TXT_PART_ONE), ToolUseBlock, TextBlock(TXT_PART_TWO)>>))),
    JsonLine(Entry(TYPE_ASSISTANT, JList(<<ToolUseBlock>>))),
    \* an assistant entry whose text has three sentences
    JsonLine(Entry(TYPE_ASSISTANT, JList(<<TextBlock(TXT_THREE)>>))),
    \* valid JSON that is not an object
    JsonLine(JList(<<>>)),
    \* assistant entries whose message is missing, null
    JsonLine(JDict([type |-> JString(TYPE_ASSISTANT)])),
    JsonLine(JDict([type |-> JString(TYPE_ASSISTANT), message |-> JNull])),
    \* assistant entries whose content is missing, null, a string
    JsonLine(JDict([type |-> JString(TYPE_ASSISTANT), message |-> JDict(EmptyDict)])),
    JsonLine(Entry(TYPE_ASSISTANT, JNull)),
    JsonLine(Entry(TYPE_ASSISTANT, JString(TXT_FIRST))),
    \* a text block without a text field, and one whose text is a number
    JsonLine(Entry(TYPE_ASSISTANT, JList(<<JDict([type |-> JString(TYPE_TEXT)])>>))),
    JsonLine(Entry(TYPE_ASSISTANT,
                   JList(<<JDict([type |-> JString(TYPE_TEXT), text |-> JNumber])>>)))
}

TranscriptFiles ==
    {[status |-> "missing", lines |-> <<>>], [status |-> "undecodable", lines |-> <<>>]}
    \cup {[status |-> "ok", lines |-> ls] : ls \in Strings(TranscriptLines, MaxLines)}

ExtractInit ==
    /\ transcript \in TranscriptFiles
    /\ summary = Returned(<<>>) /\ extract_pc = "start"
    /\ MainIdle /\ CleanIdle /\ TakeIdle

ExtractSummary ==
    /\ extract_pc = "start"
    /\ summary' = _extract_summary(transcript)
    /\ extract_pc' = "done"
    /\ UNCHANGED <<transcript, main_vars, clean_vars, take_vars>>

ExtractNext == ExtractSummary

ExtractSpec == ExtractInit /\ [][ExtractNext]_vars

\* a line that holds an assistant entry
IsAssistantLine(l) ==
    /\ l.kind = "json" /\ l.value.t = "dict"
    /\ Get(l.value.o, "type", JNull) = JString(TYPE_ASSISTANT)

\* an entry whose message, content and blocks have the documented shape
IsWellFormedEntry(v) ==
    /\ v.t = "dict"
    /\ "message" \in DOMAIN v.o /\ v.o["message"].t = "dict"
    /\ "content" \in DOMAIN v.o["message"].o
    /\ LET c == v.o["message"].o["content"]
       IN /\ c.t = "list"
          /\ \A i \in DOMAIN c.l :
                /\ c.l[i].t = "dict"
                /\ Get(c.l[i].o, "type", JNull) = JString(TYPE_TEXT) =>
                      "text" \in DOMAIN c.l[i].o /\ c.l[i].o["text"].t = "str"

\* a readable file every line of which is blank or a well-formed entry
IsWellFormed(file) ==
    /\ file.status = "ok"
    /\ \A i \in DOMAIN file.lines :
          \/ file.lines[i].kind = "blank"
          \/ file.lines[i].kind = "json" /\ IsWellFormedEntry(file.lines[i].value)

\* the concatenated content of the text blocks of a list of blocks
RECURSIVE ConcatText(_)
ConcatText(blocks) ==
    IF blocks = <<>> THEN <<>>
    ELSE (IF Get(blocks[1].o, "type", JNull) = JString(TYPE_TEXT)
          THEN blocks[1].o["text"].s ELSE <<>>) \o ConcatText(From(blocks, 2))

\* the concatenated text of the last assistant entry of a well-formed file,
\* empty when the file has no assistant entry
LastAssistantText(file) ==
    LET as == {i \in DOMAIN file.lines : IsAssistantLine(file.lines[i])}
    IN IF as = {} THEN <<>>
       ELSE LET last == CHOOSE i \in as : \A j \in as : j <= i
            IN ConcatText(file.lines[last].value.o["message"].o["content"].l)

\* C3: _extract_summary never propagates a failure: it returns a string, and
\* the empty string whenever the file or one of its lines is not well formed
C3_ExtractSummaryAbsorbsFailures ==
    extract_pc = "done" =>
        /\ summary.raised = "none"
        /\ ~IsWellFormed(transcript) => summary.value = <<>>

\* C4: the summary is computed from the concatenated text blocks of the last
\* assistant entry and from nothing else
C4_SummaryOfLastAssistantEntry ==
    extract_pc = "done" /\ IsWellFormed(transcript) =>
        summary = SummaryOf(JString(LastAssistantText(transcript)))

----------------------------------------------------------------------------
(* Properties of resolve_message and of the run *)

\* resolve_message has returned and message holds its value
Resolved == pc = "resolved"

\* resolve_message raised
ResolveRaised == pc = "except" /\ raised.at = "resolve_message"

\* the event read is an object whose hook_event_name is name
EventIs(name) == event.t = "dict" /\ Get(event.o, "hook_event_name", "") = name

\* the static messages of the configuration in use
Messages == Get(config.o, "messages", DEFAULT_CONFIG.messages)

\* the summary of a Stop event: inline, or else from the transcript it names
EventSummary ==
    LET inline == Get(event.o, "transcript_summary", <<>>)
    IN IF inline # <<>> THEN inline
       ELSE IF "transcript_path" \in DOMAIN event.o
       THEN _extract_summary(transcript_file).value
       ELSE <<>>

\* a Stop event resolved through the static template
StaticStop ==
    /\ Resolved /\ EventIs("Stop")
    /\ ~Get(event.o, "stop_hook_active", FALSE)
    /\ Get(personality, "stop", <<>>) = <<>>

\* the fixed prefix of the static stop template: the text before {summary},
\* trimmed, trailing period removed, lower-cased
FixedPrefix == Lower(RStripDot(Strip(Before(Get(Messages, "stop", PH_SUMMARY), PH_SUMMARY))))

\* C1: a Stop event whose stop_hook_active is true resolves to None,
\* whatever its summary, its transcript, the configuration and the
\* personality are
C1_StopHookActiveIsAbsent ==
    EventIs("Stop") /\ Get(event.o, "stop_hook_active", FALSE) =>
        /\ Resolved => message = JNull
        /\ ~ResolveRaised

\* a Stop event with the flag set, a readable transcript that is no JSON
\* object and personality templates for stop, resolved to None
C1_Witness ==
    /\ Resolved /\ EventIs("Stop") /\ Get(event.o, "stop_hook_active", FALSE)
    /\ "transcript_path" \in DOMAIN event.o /\ transcript_file.status = "ok"
    /\ TryExtract(transcript_file).raised = "AttributeError"
    /\ "stop" \in DOMAIN personality
    /\ message = JNull

\* C2 as stated: on the static path, a summary whose lower-cased text starts
\* with the fixed prefix is the final text verbatim, however many sentences
\* it has
C2_StutterAvoidanceVerbatim ==
    StaticStop /\ StartsWith(Lower(EventSummary), FixedPrefix) =>
        message = JString(EventSummary)

\* C2 amended: when the fixed prefix is not empty and the summary starts with
\* it, the final text is the summary reduced to its first 3 sentences
C2_StutterAvoidance ==
    StaticStop /\ FixedPrefix # <<>> /\ StartsWith(Lower(EventSummary), FixedPrefix) =>
        message = JString(FirstSentences(EventSummary, MessageSentences))

\* a summary taken from the transcript starts with the prefix "done" and is
\* the final text, not "Done. Done, ..."
C2_Witness ==
    /\ StaticStop /\ FixedPrefix = <<"d","o","n","e">>
    /\ "transcript_summary" \notin DOMAIN event.o
    /\ EventSummary # <<>> /\ StartsWith(Lower(EventSummary), FixedPrefix)
    /\ message = JString(EventSummary)

\* C7: the template of a Notification is a personality template under
\* notification_{kind} if there is one, else the static template under that
\* key, else the static notification_default, else "{message}"; an absent
\* message is "" on the personality path and "Notification" on the static
\* path; the result is cut to 3 sentences
C7_NotificationFallbackOrder ==
    Resolved /\ EventIs("Notification") =>
        LET key == NotificationKey(Get(event.o, "notification_type", ""))
            own == Get(personality, key, <<>>)
            static == IF key \in DOMAIN Messages THEN Messages[key]
                      ELSE IF "notification_default" \in DOMAIN Messages
                      THEN Messages["notification_default"]
                      ELSE PH_MESSAGE
            Cut(t, absent) ==
                JString(FirstSentences(
                    Replace(t, PH_MESSAGE, Get(event.o, "message", absent)),
                    MessageSentences))
        IN IF own # <<>>
           THEN \E i \in DOMAIN own : message = Cut(own[i], <<>>)
           ELSE message = Cut(static, NOTIFICATION)

\* a notification without a message and of a type neither the personality
\* nor the static messages know, resolved through notification_default
C7_Witness ==
    /\ Resolved /\ EventIs("Notification")
    /\ Get(event.o, "notification_type", "") = "auth_success"
    /\ "message" \notin DOMAIN event.o
    /\ "notification_idle_prompt" \in DOMAIN personality
    /\ "notification_default" \in DOMAIN Messages
    /\ message = JString(Replace(ALERT_MESSAGE, PH_MESSAGE, NOTIFICATION))

\* C8: resolve_message returns None or a non-empty string, never ""
C8_NeverEmptyString == Resolved => message # JString(<<>>)

\* C10: for a prompt that does not hold "{prompt}", the message resolved for
\* UserPromptSubmit never holds the placeholder "{prompt}"
C10_NoPromptPlaceholder ==
    /\ Resolved /\ EventIs("UserPromptSubmit")
    /\ ~Contains(Get(event.o, "prompt", <<>>), PH_PROMPT)
    => message.t = "str" /\ ~Contains(message.s, PH_PROMPT)

\* C9: every run ends, with exit status 0; a failure that left main was
\* reported on stderr, and so was a config file replaced by the defaults
C9_RunExitsZero ==
    /\ <>(pc = "exited")
    /\ [](pc = "exited" =>
            /\ exit_status = <<0>>
            /\ raised # NoException =>
                  stderr # <<>> /\ stderr[Len(stderr)] = "claudevoice error"
            /\ config_file.status \in {"missing", "invalid"} =>
                  stderr # <<>> /\ stderr[1] = "Config error, using defaults")

\* a run whose speech failed after the message was resolved, ended with 0
C9_Witness ==
    /\ pc = "exited" /\ raised.at = "speak" /\ exit_status = <<0>>
    /\ stderr = <<"Config error, using defaults", "claudevoice error">>

====
